---- MODULE Spec2Model ----
(***************************************************************************)
(* State-machine model of cmd/livesim2/app/cmaf-ingester.go:               *)
(*   - the ingester manager (cmafIngesterMgr) and its concurrent           *)
(*     NewCmafIngester callers                       -> SpecMgr            *)
(*   - one ingest session (cmafIngester.start), its rounds, its            *)
(*     per-representation units and their request drivers -> Spec          *)
(*   - one cmafSource with a producer (Write) and the HTTP body reader     *)
(*     (Read)                                        -> SpecBridge         *)
(***************************************************************************)
EXTENDS Integers, Sequences, FiniteSets, TLC

\* ------------------------------------------------------------------ bounds
\* number of concurrent NewCmafIngester callers
NProcs == 3
\* number of bytes the producer writes to one cmafSource
MaxBytes == 3
\* largest chunk of one Write call
MaxChunk == 2
\* largest len(p) of one Read call
MaxReadLen == 2
\* the wall clock is followed tick by tick up to this time, in ms
MaxNow == 3
\* number of triggerNextSegment calls
MaxTriggers == 1
\* longest c.repsData of the timeline loop
MaxTlReps == 3
\* latest nowMS given to sendMediaSegments in the timeline loop
MaxTlNow == 4

\* ------------------------------------------------------------------ inputs
\* the content types of c.repsData, in the order NewCmafIngester gives them
repsData == <<"video", "audio">>
\* segment duration of the asset, in ms
SegDurMS == 2
\* the availabilityTimeOffset values of c.cfg that are tried, in ms
AtoChoices == {0, 3}
\* the wall-clock times at which start(ctx) is entered, in ms
StartTimes == {0, 1}
\* *req.TestNowMS of a session in test mode
TestNowMS == 1

\* ------------------------------------------------------- program constants
\* deltaTime := 24 * time.Hour, in ms
Hours24 == 86400000

Procs == 1..NProcs

Reps == 1..Len(repsData)

VARIABLES
  \* ---- cmafIngesterMgr
  state,        \* cm.state
  nr,           \* cm.nr (atomic.Uint64)
  ingesters,    \* cm.ingesters: function id -> creating call
  mapWriters,   \* calls that are inside the map assignment of line 144
  raced,        \* raced[p]: p's map assignment overlapped another one
  mgrFatal,     \* the runtime ended the process ("concurrent map writes")
  mpc,          \* mpc[p]: position of call p in NewCmafIngester
  prev,         \* prev[p]: local prev of the CAS loop
  newNr,        \* newNr[p]: local nr (named result)
  ret,          \* ret[p]: what call p returned: [nr, err]
  sawState,     \* history: cm.state as read by call p at line 58
  casOrder,     \* history: [call, id] in the order of the successful CASes
  \* ---- one cmafSource, its producer and its reader
  buf,          \* c.buf
  wpc,          \* position of the producer (sendMediaSegment around writeSegment)
  rpc,          \* position of the reader (the HTTP client inside Read)
  plen,         \* len(p) of the Read call in progress
  noMoreClosed, \* close(stopCh) has run
  bctxDone,     \* c.ctx is cancelled
  lastWrite,    \* [len, n]: len(b) and the count returned by the last Write
  lastRead,     \* [len, n, err]: len(p) and the result of the last Read
  written,      \* history: all bytes given to Write, in order
  delivered,    \* history: all bytes returned by Read, in order
  \* ---- one cmafIngester and its start(ctx) task
  testMode,     \* c.TestNowMS /= nil
  ato,          \* availability time offset of c.cfg, in ms
  now,          \* the wall clock, in ms
  ctxDone,      \* ctx is cancelled
  crashed,      \* a goroutine panicked: the process is gone
  spc,          \* position of start(ctx)
  initIdx,      \* index into c.repsData of the init loop
  lastNr,       \* local lastNr
  nextSegNr,    \* local nextSegNr
  availabilityTime, \* local availabilityTime
  timerActive,  \* timer is armed and has not expired
  timerDeadline,\* the time at which the armed timer expires, else 0
  timerChan,    \* a value is waiting in timer.C
  report,       \* c.report
  wg,           \* counter of the round's sync.WaitGroup
  unit,         \* unit[r]: position of sendMediaSegment for representation r
  drv,          \* drv[r]: position of cmafSource.start of that unit
  outcome,      \* outcome[r]: "ok", or the arm of the switch of line 465
  unitRound,    \* unitRound[r]: segNr the unit was started with
  chClosed,     \* chClosed[r]: stopCh and finishedCh of the unit are closed
  orphans,      \* request drivers of earlier rounds are still running
  triggers,     \* history: triggerNextSegment calls that were received
  pushCount,    \* history: number of sendMediaSegments calls
  \* ---- one sendMediaSegments call after the other, lines 403-441
  tlFlag,       \* c.cfg.SegTimelineFlag
  tlReps,       \* the content types of c.repsData
  tlAto,        \* atoMS
  tlNow,        \* argument nowMS
  tlSegNr,      \* argument nextSegNr
  tlIdx,        \* idx of the loop, from 1; 0: no call
  tlRef,        \* local refSegEntries
  tlSeg,        \* tlSeg[i]: the number put into the media pattern of rep i
  tlCalls       \* history: tlCalls[i]: what produced tlSeg[i]

mgrVars == <<state, nr, ingesters, mapWriters, raced, mgrFatal, mpc, prev,
             newNr, ret, sawState, casOrder>>

brVars == <<buf, wpc, rpc, plen, noMoreClosed, bctxDone, lastWrite, lastRead,
            written, delivered>>

timerVars == <<timerActive, timerDeadline, timerChan>>

loopVars == <<spc, initIdx, lastNr, nextSegNr, availabilityTime>>

unitVars == <<wg, unit, drv, outcome, unitRound, chClosed, orphans>>

sessVars == <<testMode, ato, now, ctxDone, crashed, loopVars, timerVars,
              report, unitVars, triggers, pushCount>>

tlVars == <<tlFlag, tlReps, tlAto, tlNow, tlSegNr, tlIdx, tlRef, tlSeg,
            tlCalls>>

vars == <<mgrVars, brVars, sessVars, tlVars>>

notMgr == <<brVars, sessVars, tlVars>>

notBridge == <<mgrVars, sessVars, tlVars>>

notSess == <<mgrVars, brVars, tlVars>>

notTl == <<mgrVars, brVars, sessVars>>

\* ------------------------------------------------------------ the manager
ingesterStateNotStarted == "notStarted"
ingesterStateRunning == "running"
ingesterStateStopped == "stopped"

NoRet == [nr |-> 0, err |-> "pending"]

\* NewCmafIngesterMgr
MgrInit ==
  /\ state = ingesterStateNotStarted
  /\ nr = 0
  /\ ingesters = <<>>
  /\ mapWriters = {}
  /\ raced = [p \in Procs |-> FALSE]
  /\ mgrFatal = FALSE
  /\ mpc = [p \in Procs |-> "call"]
  /\ prev = [p \in Procs |-> 0]
  /\ newNr = [p \in Procs |-> 0]
  /\ ret = [p \in Procs |-> NoRet]
  /\ sawState = [p \in Procs |-> "none"]
  /\ casOrder = <<>>

\* cmafIngesterMgr.Start
MgrStart ==
  /\ ~mgrFatal
  /\ state = ingesterStateNotStarted
  /\ state' = ingesterStateRunning
  /\ UNCHANGED <<nr, ingesters, mapWriters, raced, mgrFatal, mpc, prev, newNr,
                 ret, sawState, casOrder>>
  /\ UNCHANGED notMgr

NotRunning_OnlyStopped(s) == s = ingesterStateStopped

\* the guard of line 58
NotRunning(s) == s /= ingesterStateRunning

\* lines 58-60: the state check; an early return of (0, error)
CheckState(p) ==
  /\ ~mgrFatal
  /\ mpc[p] = "call"
  /\ sawState' = [sawState EXCEPT ![p] = state]
  /\ IF NotRunning(state)
       THEN /\ mpc' = [mpc EXCEPT ![p] = "done"]
            /\ ret' = [ret EXCEPT ![p] = [nr |-> 0, err |-> "notRunning"]]
       ELSE /\ mpc' = [mpc EXCEPT ![p] = "load"]
            /\ ret' = ret
  /\ UNCHANGED <<state, nr, ingesters, mapWriters, raced, mgrFatal, prev,
                 newNr, casOrder>>
  /\ UNCHANGED notMgr

\* lines 62-63: prev := cm.nr.Load(); nr = prev + 1
LoadNr(p) ==
  /\ ~mgrFatal
  /\ mpc[p] = "load"
  /\ prev' = [prev EXCEPT ![p] = nr]
  /\ newNr' = [newNr EXCEPT ![p] = nr + 1]
  /\ mpc' = [mpc EXCEPT ![p] = "cas"]
  /\ UNCHANGED <<state, nr, ingesters, mapWriters, raced, mgrFatal, ret,
                 sawState, casOrder>>
  /\ UNCHANGED notMgr

CompareAndSwapOk_Blind(cur, old) == TRUE

\* atomic.Uint64.CompareAndSwap succeeds iff the value is still the old one
CompareAndSwapOk(cur, old) == cur = old

\* line 64, the CAS succeeds: the id is allocated
CasSucceed(p) ==
  /\ ~mgrFatal
  /\ mpc[p] = "cas"
  /\ CompareAndSwapOk(nr, prev[p])
  /\ nr' = newNr[p]
  /\ casOrder' = Append(casOrder, [call |-> p, id |-> newNr[p]])
  /\ mpc' = [mpc EXCEPT ![p] = "resolve"]
  /\ UNCHANGED <<state, ingesters, mapWriters, raced, mgrFatal, prev, newNr,
                 ret, sawState>>
  /\ UNCHANGED notMgr

\* line 64, the CAS fails: loop again
CasFail(p) ==
  /\ ~mgrFatal
  /\ mpc[p] = "cas"
  /\ ~CompareAndSwapOk(nr, prev[p])
  /\ mpc' = [mpc EXCEPT ![p] = "load"]
  /\ UNCHANGED <<state, nr, ingesters, mapWriters, raced, mgrFatal, prev,
                 newNr, ret, sawState, casOrder>>
  /\ UNCHANGED notMgr

\* the errors of lines 75-116, each returning (0, error)
ResolveErrors == {"config", "unknownAsset", "liveMPD", "contentType"}

\* lines 69-129, one of the collaborators fails
ResolveFail(p) ==
  /\ ~mgrFatal
  /\ mpc[p] = "resolve"
  /\ \E e \in ResolveErrors :
       ret' = [ret EXCEPT ![p] = [nr |-> 0, err |-> e]]
  /\ mpc' = [mpc EXCEPT ![p] = "done"]
  /\ UNCHANGED <<state, nr, ingesters, mapWriters, raced, mgrFatal, prev,
                 newNr, sawState, casOrder>>
  /\ UNCHANGED notMgr

\* lines 69-143, the request resolves and the cmafIngester is built
ResolveOk(p) ==
  /\ ~mgrFatal
  /\ mpc[p] = "resolve"
  /\ mpc' = [mpc EXCEPT ![p] = "store"]
  /\ UNCHANGED <<state, nr, ingesters, mapWriters, raced, mgrFatal, prev,
                 newNr, ret, sawState, casOrder>>
  /\ UNCHANGED notMgr

MapPut(m, k, v) == [x \in (DOMAIN m) \cup {k} |-> IF x = k THEN v ELSE m[x]]

\* line 144, cm.ingesters[nr] = &c begins. The map is a plain Go map and
\* no lock is held: two assignments may overlap.
StoreBegin(p) ==
  /\ ~mgrFatal
  /\ mpc[p] = "store"
  /\ mapWriters' = mapWriters \cup {p}
  /\ raced' = [q \in Procs |->
                 IF mapWriters /= {} /\ q \in mapWriters \cup {p}
                   THEN TRUE ELSE raced[q]]
  /\ mpc' = [mpc EXCEPT ![p] = "storing"]
  /\ UNCHANGED <<state, nr, ingesters, mgrFatal, prev, newNr, ret, sawState,
                 casOrder>>
  /\ UNCHANGED notMgr

\* line 144 ends, lines 146: return nr, nil. An assignment that
\* overlapped another one is a data race on the map: the entry is stored,
\* or it is lost, or the runtime ends the process.
StoreEnd(p) ==
  /\ ~mgrFatal
  /\ mpc[p] = "storing"
  /\ mapWriters' = mapWriters \ {p}
  /\ raced' = [raced EXCEPT ![p] = FALSE]
  /\ \/ /\ ingesters' = MapPut(ingesters, newNr[p], p)
        /\ mgrFatal' = FALSE
        /\ mpc' = [mpc EXCEPT ![p] = "done"]
        /\ ret' = [ret EXCEPT ![p] = [nr |-> newNr[p], err |-> "nil"]]
     \/ /\ raced[p]
        /\ ingesters' = ingesters
        /\ mgrFatal' = FALSE
        /\ mpc' = [mpc EXCEPT ![p] = "done"]
        /\ ret' = [ret EXCEPT ![p] = [nr |-> newNr[p], err |-> "nil"]]
     \/ /\ raced[p]
        /\ ingesters' = ingesters
        /\ mgrFatal' = TRUE
        /\ UNCHANGED <<mpc, ret>>
  /\ UNCHANGED <<state, nr, prev, newNr, sawState, casOrder>>
  /\ UNCHANGED notMgr

NewCmafIngester(p) ==
  \/ CheckState(p)
  \/ LoadNr(p)
  \/ CasSucceed(p)
  \/ CasFail(p)
  \/ ResolveFail(p)
  \/ ResolveOk(p)
  \/ StoreBegin(p)
  \/ StoreEnd(p)

MgrNext ==
  \/ MgrStart
  \/ \E p \in Procs : NewCmafIngester(p)

\* --------------------------------------------------------- the cmafSource
Min(a, b) == IF a < b THEN a ELSE b

\* the chunk of m bytes that follows the bytes written so far
NextChunk(m) == [i \in 1..m |-> Len(written) + i]

\* newCmafSource, and the unit and the HTTP client about to use it
BridgeInit ==
  /\ buf = <<>>
  /\ wpc = "writing"
  /\ rpc = "idle"
  /\ plen = 0
  /\ noMoreClosed = FALSE
  /\ bctxDone = FALSE
  /\ lastWrite = [len |-> 0, n |-> 0]
  /\ lastRead = [len |-> 0, n |-> 0, err |-> "none"]
  /\ written = <<>>
  /\ delivered = <<>>

\* cmafSource.Write, lines 549-555, called by writeSegment (under c.mu)
Write(m) ==
  /\ wpc = "writing"
  /\ Len(written) + m <= MaxBytes
  /\ buf' = buf \o NextChunk(m)
  /\ written' = written \o NextChunk(m)
  /\ lastWrite' = [len |-> m, n |-> m]
  /\ UNCHANGED <<wpc, rpc, plen, noMoreClosed, bctxDone, lastRead, delivered>>
  /\ UNCHANGED notBridge

\* writeSegment returned nil: the unit reaches stopCh <- struct{}{}, line 481
ProducerFinish ==
  /\ wpc = "writing"
  /\ wpc' = "sendNoMore"
  /\ UNCHANGED <<buf, rpc, plen, noMoreClosed, bctxDone, lastWrite, lastRead,
                 written, delivered>>
  /\ UNCHANGED notBridge

\* writeSegment returned an error: the unit returns, lines 462-479, and its
\* deferred close(stopCh) of line 450 runs
ProducerAbort ==
  /\ wpc = "writing"
  /\ wpc' = "aborted"
  /\ noMoreClosed' = TRUE
  /\ UNCHANGED <<buf, rpc, plen, bctxDone, lastWrite, lastRead, written,
                 delivered>>
  /\ UNCHANGED notBridge

\* the lifetime context is cancelled
BridgeCancel ==
  /\ ~bctxDone
  /\ bctxDone' = TRUE
  /\ UNCHANGED <<buf, wpc, rpc, plen, noMoreClosed, lastWrite, lastRead,
                 written, delivered>>
  /\ UNCHANGED notBridge

\* the HTTP client calls Read(p) with len(p) = n, line 562
ReadCall(n) ==
  /\ rpc = "idle"
  /\ rpc' = "check"
  /\ plen' = n
  /\ UNCHANGED <<buf, wpc, noMoreClosed, bctxDone, lastWrite, lastRead,
                 written, delivered>>
  /\ UNCHANGED notBridge

\* n := copy(p, c.buf), line 571
Copy(n, b) == Min(n, Len(b))

\* lines 572-576: what is left in c.buf after n bytes were copied out
Remainder(b, n) == IF n < Len(b) THEN SubSeq(b, n + 1, Len(b)) ELSE <<>>

\* lines 565-580: under c.mu, data is returned if there is any
ReadCheck ==
  /\ rpc = "check"
  /\ IF Len(buf) > 0
       THEN /\ delivered' = delivered \o SubSeq(buf, 1, Copy(plen, buf))
            /\ buf' = Remainder(buf, Copy(plen, buf))
            /\ lastRead' = [len |-> plen, n |-> Copy(plen, buf), err |-> "nil"]
            /\ rpc' = "idle"
       ELSE /\ rpc' = "select"
            /\ UNCHANGED <<buf, delivered, lastRead>>
  /\ UNCHANGED <<wpc, plen, noMoreClosed, bctxDone, lastWrite, written>>
  /\ UNCHANGED notBridge

\* line 582: case <-c.ctx.Done()
ReadCtxDone ==
  /\ rpc = "select"
  /\ bctxDone
  /\ rpc' = "eof"
  /\ lastRead' = [len |-> plen, n |-> 0, err |-> "EOF:ctx"]
  /\ UNCHANGED <<buf, wpc, plen, noMoreClosed, bctxDone, lastWrite, written,
                 delivered>>
  /\ UNCHANGED notBridge

\* line 584: case <-c.noMoreCh, receiving what the unit sends at line 481
ReadNoMore ==
  /\ rpc = "select"
  /\ wpc = "sendNoMore"
  /\ wpc' = "sent"
  /\ rpc' = "eof"
  /\ lastRead' = [len |-> plen, n |-> 0, err |-> "EOF:noMore"]
  /\ UNCHANGED <<buf, plen, noMoreClosed, bctxDone, lastWrite, written,
                 delivered>>
  /\ UNCHANGED notBridge

\* line 584: case <-c.noMoreCh on the closed channel
ReadNoMoreClosed ==
  /\ rpc = "select"
  /\ noMoreClosed
  /\ rpc' = "eof"
  /\ lastRead' = [len |-> plen, n |-> 0, err |-> "EOF:closed"]
  /\ UNCHANGED <<buf, wpc, plen, noMoreClosed, bctxDone, lastWrite, written,
                 delivered>>
  /\ UNCHANGED notBridge

\* lines 586-587: default, taken when no other case is ready; sleep, loop
ReadPoll ==
  /\ rpc = "select"
  /\ ~bctxDone
  /\ wpc /= "sendNoMore"
  /\ ~noMoreClosed
  /\ rpc' = "check"
  /\ UNCHANGED <<buf, wpc, plen, noMoreClosed, bctxDone, lastWrite, lastRead,
                 written, delivered>>
  /\ UNCHANGED notBridge

\* cmafSource.Read, lines 562-590
Read ==
  \/ ReadCheck
  \/ ReadCtxDone
  \/ ReadNoMore
  \/ ReadNoMoreClosed
  \/ ReadPoll

BridgeNext ==
  \/ \E n \in 0..MaxReadLen : ReadCall(n)
  \/ Read
  \/ \E m \in 1..MaxChunk : Write(m)
  \/ ProducerFinish
  \/ ProducerAbort
  \/ BridgeCancel

\* ------------------------------------------------------------ the session
\* findLastSegNr: the last segment that is complete at time t
findLastSegNr(t) == (t \div SegDurMS) - 1

\* calcSegmentAvailabilityTime: the end of segment n, less the offset
calcSegmentAvailabilityTime(n) == (n + 1) * SegDurMS - ato

\* a cmafIngester as NewCmafIngester builds it, before start(ctx) runs
SessInit ==
  /\ testMode \in BOOLEAN
  /\ ato \in AtoChoices
  /\ now \in StartTimes
  /\ testMode => (ato = 0 /\ now = 0)
  /\ ctxDone = FALSE
  /\ crashed = FALSE
  /\ spc = "init"
  /\ initIdx = 1
  /\ lastNr = 0
  /\ nextSegNr = 0
  /\ availabilityTime = 0
  /\ timerActive = FALSE
  /\ timerDeadline = 0
  /\ timerChan = FALSE
  /\ report = <<>>
  /\ wg = 0
  /\ unit = [r \in Reps |-> "none"]
  /\ drv = [r \in Reps |-> "none"]
  /\ outcome = [r \in Reps |-> "none"]
  /\ unitRound = [r \in Reps |-> 0]
  /\ chClosed = [r \in Reps |-> FALSE]
  /\ orphans = FALSE
  /\ triggers = 0
  /\ pushCount = 0

AppendReport_Overwrite(rep, msg) == <<msg>>

\* c.report = append(c.report, msg)
AppendReport(rep, msg) == Append(rep, msg)

\* what one pass of the init loop, lines 188-235, can meet
InitOutcomes == {"subs", "subsMatchErr", "subsEncodeErr", "assetPut",
                 "assetPutNon2xx", "assetPutErr", "assetMatchErr"}

\* what becomes of the PUT of an asset-derived init segment
PutResult(o) ==
  CASE o = "assetPutNon2xx" -> "non2xx"
    [] o = "assetPutErr" -> "transportErr"
    [] OTHER -> "2xx"

\* sendInitSegment, lines 379-401: an error is returned when the request
\* cannot be sent or its response cannot be read; the status of a response
\* is not looked at
sendInitSegment(res) == IF res = "transportErr" THEN "err" ELSE "nil"

\* the outcomes of the init loop that return from start, lines 195 and 204
InitFatal == {"subsMatchErr", "subsEncodeErr"}

\* the report after one pass of the init loop with outcome o
InitReport(rep, o) ==
  CASE o = "subsMatchErr" ->
         AppendReport(rep, "error matching time subs init lang")
    [] o = "subsEncodeErr" ->
         AppendReport(rep, "Error encoding init segment")
    [] o \in {"assetPut", "assetPutNon2xx", "assetPutErr"} ->
         IF sendInitSegment(PutResult(o)) = "err"
           THEN AppendReport(rep, "error uploading init segment")
           ELSE rep
    [] o = "assetMatchErr" ->
         AppendReport(AppendReport(rep, "Error matching init segment"),
                      "Error matching init segment")
    [] OTHER -> rep

\* lines 188-235: one pass of the init loop, for c.repsData[initIdx]
InitRep(o) ==
  /\ ~crashed
  /\ spc = "init"
  /\ report' = InitReport(report, o)
  /\ IF o \in InitFatal
       THEN spc' = "stopped" /\ initIdx' = initIdx
       ELSE /\ initIdx' = initIdx + 1
            /\ spc' = IF initIdx = Len(repsData) THEN "first" ELSE "init"
  /\ UNCHANGED <<testMode, ato, now, ctxDone, crashed, lastNr,
                 nextSegNr, availabilityTime, timerVars, unitVars, triggers,
                 pushCount>>
  /\ UNCHANGED notSess

\* nowMS, lines 238-243, 296-298 and 325: the simulated time, or the wall
\* clock as it is read
nowMS == IF testMode THEN TestNowMS ELSE now

FirstDelta_Swapped(avail, t) == IF testMode THEN Hours24 ELSE t - avail

\* lines 258-261: the delay of the first timer
FirstDelta(avail, t) == IF testMode THEN Hours24 ELSE avail - t

\* lines 238-262, calcSegmentAvailabilityTime succeeds: the first segment
\* number, its availability time, and time.NewTimer(deltaTime)
FirstCalc ==
  /\ ~crashed
  /\ spc = "first"
  /\ lastNr' = findLastSegNr(nowMS)
  /\ nextSegNr' = lastNr' + 1
  /\ availabilityTime' = calcSegmentAvailabilityTime(nextSegNr')
  /\ timerActive' = TRUE
  /\ timerDeadline' = now + FirstDelta(availabilityTime', nowMS)
  /\ spc' = "wait"
  /\ UNCHANGED <<testMode, ato, now, ctxDone, crashed, initIdx, timerChan,
                 report, unitVars, triggers, pushCount>>
  /\ UNCHANGED notSess

\* lines 238-255, calcSegmentAvailabilityTime fails: report and return
FirstCalcFail ==
  /\ ~crashed
  /\ spc = "first"
  /\ lastNr' = findLastSegNr(nowMS)
  /\ nextSegNr' = lastNr' + 1
  /\ report' = AppendReport(report, "Error calculating segment availability time")
  /\ spc' = "stopped"
  /\ UNCHANGED <<testMode, ato, now, ctxDone, crashed, initIdx,
                 availabilityTime, timerVars, unitVars, triggers, pushCount>>
  /\ UNCHANGED notSess

\* the request drivers that a new round leaves behind
Leftover == {r \in Reps : drv[r] \notin {"none", "done"}}

\* sendMediaSegments up to wg.Wait, lines 403-441: one sendMediaSegment
\* goroutine per representation, each one starting its cmafSource
Dispatch ==
  /\ pushCount' = pushCount + 1
  /\ wg' = Len(repsData)
  /\ unit' = [r \in Reps |-> "write"]
  /\ drv' = [r \in Reps |-> "body"]
  /\ outcome' = [r \in Reps |-> "none"]
  /\ unitRound' = [r \in Reps |-> nextSegNr]
  /\ chClosed' = [r \in Reps |-> FALSE]
  /\ orphans' = (orphans \/ Leftover /= {})
  /\ spc' = "join"

\* line 273: case <-timer.C
WakeTimer ==
  /\ ~crashed
  /\ spc = "wait"
  /\ timerChan
  /\ timerChan' = FALSE
  /\ Dispatch
  /\ UNCHANGED <<testMode, ato, now, ctxDone, crashed, initIdx, lastNr,
                 nextSegNr, availabilityTime, timerActive, timerDeadline,
                 report, triggers>>
  /\ UNCHANGED notSess

\* line 275: case <-c.nextSegTrigger, receiving what triggerNextSegment
\* sends at line 376
WakeTrigger ==
  /\ ~crashed
  /\ spc = "wait"
  /\ triggers < MaxTriggers
  /\ triggers' = triggers + 1
  /\ Dispatch
  /\ UNCHANGED <<testMode, ato, now, ctxDone, crashed, initIdx, lastNr,
                 nextSegNr, availabilityTime, timerVars, report>>
  /\ UNCHANGED notSess

\* lines 277-279: case <-ctx.Done(); return, into the deferred function
WakeCtxDone ==
  /\ ~crashed
  /\ spc = "wait"
  /\ ctxDone
  /\ spc' = "defer"
  /\ UNCHANGED <<testMode, ato, now, ctxDone, crashed, initIdx, lastNr,
                 nextSegNr, availabilityTime, timerVars, report, unitVars,
                 triggers, pushCount>>
  /\ UNCHANGED notSess

WaitDone_AllButOne(n) == n <= 1

\* wg.Wait returns when the counter is zero
WaitDone(n) == n = 0

\* the times a round may take: the clock is followed up to MaxNow
RoundTimes == IF now < MaxNow THEN 0..(MaxNow - now) ELSE {0}

\* lines 442-443 and 281-282: wg.Wait returns, sendMediaSegments returns nil.
\* The round has taken d ms.
Join(d) ==
  /\ ~crashed
  /\ spc = "join"
  /\ WaitDone(wg)
  /\ now' = now + d
  /\ spc' = "calc"
  /\ UNCHANGED <<testMode, ato, ctxDone, crashed, initIdx, lastNr,
                 nextSegNr, availabilityTime, timerVars, report, unitVars,
                 triggers, pushCount>>
  /\ UNCHANGED notSess

NextNr_Same(n) == n

\* nextSegNr++, lines 288 and 317
NextNr(n) == n + 1

\* lines 288-289 and 317-318, calcSegmentAvailabilityTime succeeds
CalcNext ==
  /\ ~crashed
  /\ spc = "calc"
  /\ nextSegNr' = NextNr(nextSegNr)
  /\ availabilityTime' = calcSegmentAvailabilityTime(nextSegNr')
  /\ spc' = IF testMode THEN "wait" ELSE "drift"
  /\ UNCHANGED <<testMode, ato, now, ctxDone, crashed, initIdx, lastNr,
                 timerVars, report, unitVars, triggers, pushCount>>
  /\ UNCHANGED notSess

AfterFatal_Continue == "wait"

\* the return of lines 294 and 323: out of the loop, into the deferred
\* function
AfterFatal == "defer"

\* lines 288-295 and 317-324, calcSegmentAvailabilityTime fails
CalcNextFail ==
  /\ ~crashed
  /\ spc = "calc"
  /\ nextSegNr' = NextNr(nextSegNr)
  /\ report' = AppendReport(report, "Error calculating segment availability time")
  /\ spc' = AfterFatal
  /\ UNCHANGED <<testMode, ato, now, ctxDone, crashed, initIdx, lastNr,
                 availabilityTime, timerVars, unitVars, triggers, pushCount>>
  /\ UNCHANGED notSess

\* lines 302 and 326: deltaTime, in ms
DeltaTime == availabilityTime - nowMS

InFuture_OrNow(d) == d >= 0

\* line 304: if deltaTime > 0 { break }
InFuture(d) == d > 0

\* lines 296-305, 325-326 and 328: the clock is read and the segment is
\* not available yet, timer.Reset.
\* A value that waits in timer.C stays there or is dropped, by the version
\* of the runtime.
DriftReset ==
  /\ ~crashed
  /\ spc = "drift"
  /\ InFuture(DeltaTime)
  /\ timerActive' = TRUE
  /\ timerDeadline' = now + DeltaTime
  /\ timerChan' \in {timerChan, FALSE}
  /\ spc' = "wait"
  /\ UNCHANGED <<testMode, ato, now, ctxDone, crashed, initIdx, lastNr,
                 nextSegNr, availabilityTime, report, unitVars, triggers,
                 pushCount>>
  /\ UNCHANGED notSess

\* lines 296-310 and 325-326: the clock is read and the segment is
\* overdue, report it and send it at once
DriftSend ==
  /\ ~crashed
  /\ spc = "drift"
  /\ ~InFuture(DeltaTime)
  /\ report' = AppendReport(report, "Segment availability time in the past")
  /\ Dispatch
  /\ UNCHANGED <<testMode, ato, now, ctxDone, crashed, initIdx, lastNr,
                 nextSegNr, availabilityTime, timerVars, triggers>>
  /\ UNCHANGED notSess

\* lines 263-267, the deferred function: timer.Stop() stops an armed timer
DeferStop ==
  /\ ~crashed
  /\ spc = "defer"
  /\ timerActive
  /\ timerActive' = FALSE
  /\ timerDeadline' = 0
  /\ spc' = "stopped"
  /\ UNCHANGED <<testMode, ato, now, ctxDone, crashed, initIdx, lastNr,
                 nextSegNr, availabilityTime, timerChan, report,
                 unitVars, triggers, pushCount>>
  /\ UNCHANGED notSess

\* lines 263-267, the deferred function: the timer has expired and its
\* value is taken out of timer.C. With no value there it blocks.
DeferDrain ==
  /\ ~crashed
  /\ spc = "defer"
  /\ ~timerActive
  /\ timerChan
  /\ timerChan' = FALSE
  /\ spc' = "stopped"
  /\ UNCHANGED <<testMode, ato, now, ctxDone, crashed, initIdx, lastNr,
                 nextSegNr, availabilityTime, timerActive, timerDeadline,
                 report, unitVars, triggers, pushCount>>
  /\ UNCHANGED notSess

\* cmafIngester.start, lines 181-330
start ==
  \/ \E o \in InitOutcomes : InitRep(o)
  \/ FirstCalc
  \/ FirstCalcFail
  \/ WakeTimer
  \/ WakeTrigger
  \/ WakeCtxDone
  \/ \E d \in RoundTimes : Join(d)
  \/ CalcNext
  \/ CalcNextFail
  \/ DriftReset
  \/ DriftSend
  \/ DeferStop
  \/ DeferDrain

\* ------------------------------------------- the units and their drivers
\* the writeSegment errors of lines 466-474: log and return
SegAborts == {"notFound", "tooEarly", "gone"}

\* the writeSegment errors of lines 466-478
SegFailures == SegAborts \cup {"other"}

\* the arm of the switch of line 465 that error e takes
SwitchArm(e) == IF e \in SegAborts THEN "abort" ELSE "default"

\* line 461, writeSegment returns nil: the unit goes on to line 481
UnitWriteOk(r) ==
  /\ ~crashed
  /\ unit[r] = "write"
  /\ unit' = [unit EXCEPT ![r] = "sendStop"]
  /\ outcome' = [outcome EXCEPT ![r] = "ok"]
  /\ UNCHANGED <<testMode, ato, now, ctxDone, crashed, loopVars, timerVars,
                 report, wg, drv, unitRound, chClosed, orphans, triggers,
                 pushCount>>
  /\ UNCHANGED notSess

\* lines 462-479, writeSegment returns an error: the unit returns, and its
\* deferred calls run: close(finishedCh), close(stopCh), wg.Done()
UnitWriteFail(r, e) ==
  /\ ~crashed
  /\ unit[r] = "write"
  /\ unit' = [unit EXCEPT ![r] = "done"]
  /\ outcome' = [outcome EXCEPT ![r] = SwitchArm(e)]
  /\ chClosed' = [chClosed EXCEPT ![r] = TRUE]
  /\ wg' = wg - 1
  /\ UNCHANGED <<testMode, ato, now, ctxDone, crashed, loopVars, timerVars,
                 report, drv, unitRound, orphans, triggers, pushCount>>
  /\ UNCHANGED notSess

AfterStopSent_Return == "done"

\* line 482: after the send of line 481 the unit waits in <-finishedCh
AfterStopSent == "waitFin"

\* line 481 and line 584: stopCh <- struct{}{} meets case <-c.noMoreCh of
\* the Read that the HTTP client is in; Read returns io.EOF
UnitSendStop(r) ==
  /\ ~crashed
  /\ unit[r] = "sendStop"
  /\ drv[r] = "body"
  /\ unit' = [unit EXCEPT ![r] = AfterStopSent]
  /\ drv' = [drv EXCEPT ![r] = "resp"]
  /\ UNCHANGED <<testMode, ato, now, ctxDone, crashed, loopVars, timerVars,
                 report, wg, outcome, unitRound, chClosed, orphans, triggers,
                 pushCount>>
  /\ UNCHANGED notSess

\* line 584 on the closed channel: Read returns io.EOF, Do returns;
\* return, into the deferred send
DriverReadClosed(r) ==
  /\ ~crashed
  /\ drv[r] = "body"
  /\ chClosed[r]
  /\ drv' = [drv EXCEPT ![r] = "sendFin"]
  /\ UNCHANGED <<testMode, ato, now, ctxDone, crashed, loopVars, timerVars,
                 report, wg, unit, outcome, unitRound, chClosed, orphans,
                 triggers, pushCount>>
  /\ UNCHANGED notSess

\* line 582: case <-c.ctx.Done(), Read returns io.EOF, Do returns;
\* return, into the deferred send
DriverReadCtxDone(r) ==
  /\ ~crashed
  /\ drv[r] = "body"
  /\ ctxDone
  /\ drv' = [drv EXCEPT ![r] = "sendFin"]
  /\ UNCHANGED <<testMode, ato, now, ctxDone, crashed, loopVars, timerVars,
                 report, wg, unit, outcome, unitRound, chClosed, orphans,
                 triggers, pushCount>>
  /\ UNCHANGED notSess

\* lines 516-530: the request cannot be built, or Do returns an error
\* before the body was read to its end; return, into the deferred send
DriverError(r) ==
  /\ ~crashed
  /\ drv[r] = "body"
  /\ drv' = [drv EXCEPT ![r] = "sendFin"]
  /\ UNCHANGED <<testMode, ato, now, ctxDone, crashed, loopVars, timerVars,
                 report, wg, unit, outcome, unitRound, chClosed, orphans,
                 triggers, pushCount>>
  /\ UNCHANGED notSess

\* lines 526-539: the body was read to its end and Do returns, with a
\* response of any status or with an error; return, into the deferred send
DriverResponse(r) ==
  /\ ~crashed
  /\ drv[r] = "resp"
  /\ drv' = [drv EXCEPT ![r] = "sendFin"]
  /\ UNCHANGED <<testMode, ato, now, ctxDone, crashed, loopVars, timerVars,
                 report, wg, unit, outcome, unitRound, chClosed, orphans,
                 triggers, pushCount>>
  /\ UNCHANGED notSess

\* line 518 and line 482: c.finishedCh <- struct{}{} meets <-finishedCh;
\* the unit returns and its deferred calls run
DriverSendFinished(r) ==
  /\ ~crashed
  /\ drv[r] = "sendFin"
  /\ ~chClosed[r]
  /\ unit[r] = "waitFin"
  /\ drv' = [drv EXCEPT ![r] = "done"]
  /\ unit' = [unit EXCEPT ![r] = "done"]
  /\ chClosed' = [chClosed EXCEPT ![r] = TRUE]
  /\ wg' = wg - 1
  /\ UNCHANGED <<testMode, ato, now, ctxDone, crashed, loopVars, timerVars,
                 report, outcome, unitRound, orphans, triggers, pushCount>>
  /\ UNCHANGED notSess

\* line 518 on the closed channel: a send on a closed channel panics, and
\* a panic that no one recovers ends the process
DriverPanic(r) ==
  /\ ~crashed
  /\ drv[r] = "sendFin"
  /\ chClosed[r]
  /\ drv' = [drv EXCEPT ![r] = "panicked"]
  /\ crashed' = TRUE
  /\ UNCHANGED <<testMode, ato, now, ctxDone, loopVars, timerVars, report,
                 wg, unit, outcome, unitRound, chClosed, orphans, triggers,
                 pushCount>>
  /\ UNCHANGED notSess

\* line 518 in a driver of an earlier round: its unit has returned, so its
\* finishedCh is closed
OrphanPanic ==
  /\ ~crashed
  /\ orphans
  /\ crashed' = TRUE
  /\ UNCHANGED <<testMode, ato, now, ctxDone, loopVars, timerVars, report,
                 unitVars, triggers, pushCount>>
  /\ UNCHANGED notSess

\* cmafIngester.sendMediaSegment, lines 446-483
sendMediaSegment(r) ==
  \/ UnitWriteOk(r)
  \/ \E e \in SegFailures : UnitWriteFail(r, e)
  \/ UnitSendStop(r)

\* cmafSource.start, lines 513-539, with the Read calls of its request
cmafSourceStart(r) ==
  \/ DriverReadClosed(r)
  \/ DriverReadCtxDone(r)
  \/ DriverError(r)
  \/ DriverResponse(r)
  \/ DriverSendFinished(r)
  \/ DriverPanic(r)

\* ------------------------------------------------------- the environment
\* one ms passes while the session waits
Tick ==
  /\ ~crashed
  /\ spc = "wait"
  /\ now < MaxNow
  /\ now' = now + 1
  /\ UNCHANGED <<testMode, ato, ctxDone, crashed, loopVars, timerVars, report,
                 unitVars, triggers, pushCount>>
  /\ UNCHANGED notSess

\* the session waits until the armed timer is due
AwaitTimer ==
  /\ ~crashed
  /\ spc = "wait"
  /\ now < MaxNow
  /\ timerActive
  /\ timerDeadline > now + 1
  /\ now' = timerDeadline
  /\ UNCHANGED <<testMode, ato, ctxDone, crashed, loopVars, timerVars, report,
                 unitVars, triggers, pushCount>>
  /\ UNCHANGED notSess

\* the runtime: the armed timer expires and sends the time on timer.C
TimerFire ==
  /\ ~crashed
  /\ timerActive
  /\ now >= timerDeadline
  /\ timerActive' = FALSE
  /\ timerDeadline' = 0
  /\ timerChan' = TRUE
  /\ UNCHANGED <<testMode, ato, now, ctxDone, crashed, loopVars,
                 report, unitVars, triggers, pushCount>>
  /\ UNCHANGED notSess

\* the owner of ctx cancels it
Cancel ==
  /\ ~crashed
  /\ ~ctxDone
  /\ ctxDone' = TRUE
  /\ UNCHANGED <<testMode, ato, now, crashed, loopVars, timerVars, report,
                 unitVars, triggers, pushCount>>
  /\ UNCHANGED notSess

SessNext ==
  \/ start
  \/ \E r \in Reps : sendMediaSegment(r)
  \/ \E r \in Reps : cmafSourceStart(r)
  \/ OrphanPanic
  \/ TimerFire
  \/ Tick
  \/ AwaitTimer
  \/ Cancel

\* ------------------------------------- the segment parts of one round
\* the order orderAdaptationSetsByContentType gives to the adaptation sets
ContentOrder == [video |-> 1, audio |-> 2, text |-> 3]

\* the lists of content types that NewCmafIngester can build, lines 96-127
RepLists ==
  {l \in UNION {[1..n -> DOMAIN ContentOrder] : n \in 1..MaxTlReps} :
     \A i \in 1..(Len(l) - 1) : ContentOrder[l[i]] <= ContentOrder[l[i + 1]]}

\* segment duration of the representations of a content type, in ms: the
\* audio segments are not aligned with the video segments
TlDur == [video |-> 2, audio |-> 3, text |-> 2]

\* length of the window of the timeline, in ms
TlWindow == 6

\* nowMS+50, line 406
WrapLeadMS == 50

\* calcWrapTimes: the window of the timeline that ends at time t
calcWrapTimes(t) == [startT |-> IF t > TlWindow THEN t - TlWindow ELSE 0,
                     endT |-> t]

\* generateTimelineEntries: the start times of the segments of a
\* representation of content type ct that lie in the window w, the
\* availability time offset taken into account
generateTimelineEntries(ct, w, atoMS) ==
  LET d == TlDur[ct]
      ks == {k \in 0..((w.endT + atoMS) \div d) :
               k * d >= w.startT /\ (k + 1) * d <= w.endT + atoMS}
      k0 == CHOOSE k \in ks : \A j \in ks : k <= j
  IN  [i \in 1..Cardinality(ks) |-> (k0 + i - 1) * d]

\* generateTimelineEntriesFromRef: the entries of the reference, the
\* segment boundaries forced to those of the reference
generateTimelineEntriesFromRef(ref, ct) == ref

\* segEntries.lastTime
lastTime(se) == IF se = <<>> THEN 0 ELSE se[Len(se)]

\* no sendMediaSegments call is followed step by step
TlIdle ==
  /\ tlFlag = FALSE
  /\ tlReps = <<>>
  /\ tlAto = 0
  /\ tlNow = 0
  /\ tlSegNr = 0
  /\ tlIdx = 0
  /\ tlRef = <<>>
  /\ tlSeg = <<>>
  /\ tlCalls = <<>>

\* the entry of sendMediaSegments, lines 403-411
TlInit ==
  /\ tlFlag \in BOOLEAN
  /\ tlReps \in RepLists
  /\ tlAto \in {0, 1}
  /\ tlNow \in 0..1
  /\ tlSegNr = 0
  /\ tlIdx = 1
  /\ tlRef = <<>>
  /\ tlSeg = <<>>
  /\ tlCalls = <<>>

FromRef_Never(idx, ct) == FALSE

\* lines 415-423: the representations that are not the first one and whose
\* content type is audio take their entries from the reference
FromRef(idx, ct) == idx /= 1 /\ ct = "audio"

\* wTimes, line 406
wTimes == calcWrapTimes(tlNow + WrapLeadMS)

\* lines 412-433 or 435-440: one pass of the loop over c.repsData; the
\* number that replaceTimeOrNr puts into rd.mediaPattern
SegmentPart ==
  /\ tlIdx \in 1..Len(tlReps)
  /\ IF tlFlag
       THEN IF tlIdx = 1
              THEN /\ tlRef' = generateTimelineEntries(tlReps[1], wTimes, tlAto)
                   /\ tlSeg' = Append(tlSeg, lastTime(tlRef'))
                   /\ tlCalls' = Append(tlCalls, "entries")
              ELSE IF FromRef(tlIdx, tlReps[tlIdx])
                THEN /\ tlSeg' = Append(tlSeg, lastTime(
                           generateTimelineEntriesFromRef(tlRef, tlReps[tlIdx])))
                     /\ tlCalls' = Append(tlCalls, "fromRef")
                     /\ tlRef' = tlRef
                ELSE /\ tlSeg' = Append(tlSeg, lastTime(
                           generateTimelineEntries(tlReps[tlIdx], wTimes, tlAto)))
                     /\ tlCalls' = Append(tlCalls, "entries")
                     /\ tlRef' = tlRef
       ELSE /\ tlSeg' = Append(tlSeg, tlSegNr)
            /\ tlCalls' = Append(tlCalls, "number")
            /\ tlRef' = tlRef
  /\ tlIdx' = tlIdx + 1
  /\ UNCHANGED <<tlFlag, tlReps, tlAto, tlNow, tlSegNr>>
  /\ UNCHANGED notTl

\* the loop is over, lines 442-443; the next call, for the next segment and
\* at a later time, starts with locals of its own
NextCall(d) ==
  /\ tlIdx > Len(tlReps)
  /\ tlIdx > 0
  /\ tlNow + d <= MaxTlNow
  /\ tlNow' = tlNow + d
  /\ tlSegNr' = tlSegNr + 1
  /\ tlIdx' = 1
  /\ tlRef' = <<>>
  /\ tlSeg' = <<>>
  /\ tlCalls' = <<>>
  /\ UNCHANGED <<tlFlag, tlReps, tlAto>>
  /\ UNCHANGED notTl

TlNext ==
  \/ SegmentPart
  \/ \E d \in 1..2 : NextCall(d)

\* ------------------------------------------------------------ claims: manager
Allocated == {casOrder[i].call : i \in 1..Len(casOrder)}

\* C1: under any interleaving of NewCmafIngester calls no two calls obtain
\* the same id, no id is 0, a call whose successful compare-and-swap comes
\* later obtains a strictly larger id, and a call that returns without error
\* returns the id it allocated; calls that fail after their allocation
\* included.
C1_IdsUniqueIncreasing ==
  /\ \A i \in 1..Len(casOrder) : casOrder[i].id /= 0
  /\ \A i, j \in 1..Len(casOrder) :
       i < j => casOrder[i].id < casOrder[j].id
  /\ \A i \in 1..Len(casOrder) : newNr[casOrder[i].call] = casOrder[i].id
  /\ \A p \in Procs : ret[p].err = "nil" =>
       /\ p \in Allocated
       /\ ret[p].nr = newNr[p]
       /\ \A q \in Allocated \ {p} : newNr[q] /= ret[p].nr

\* three calls allocated; the first one failed after its allocation, a later
\* one returned its (larger) id
C1_Witness ==
  /\ Len(casOrder) >= 3
  /\ ret[casOrder[1].call].err \in ResolveErrors
  /\ ret[casOrder[3].call].err = "nil"
  /\ ret[casOrder[3].call].nr > casOrder[1].id

SawNotRunning(p) == sawState[p] \notin {"none", ingesterStateRunning}

\* C2: a NewCmafIngester call that finds the manager not running returns an
\* error, allocates no id and stores no session, and its step changes neither
\* the id counter nor the map; every session in the map was created by a call
\* that found the manager running, and the manager is running.
C2_NotRunningCreatesNothing ==
  /\ [](\A p \in Procs : SawNotRunning(p) =>
          /\ mpc[p] = "done"
          /\ ret[p] = [nr |-> 0, err |-> "notRunning"]
          /\ p \notin Allocated
          /\ \A k \in DOMAIN ingesters : ingesters[k] /= p)
  /\ [](\A k \in DOMAIN ingesters :
          /\ sawState[ingesters[k]] = ingesterStateRunning
          /\ state = ingesterStateRunning)
  /\ [](nr = Len(casOrder))
  /\ [][\A p \in Procs :
          (mpc[p] = "call" /\ mpc'[p] = "done") =>
             (nr' = nr /\ ingesters' = ingesters)]_vars

\* one call was refused before Start, another one stored its session after it
C2_Witness ==
  \E p, q \in Procs :
    /\ SawNotRunning(p)
    /\ mpc[p] = "done"
    /\ ret[q].err = "nil"
    /\ ret[q].nr \in DOMAIN ingesters

\* C19: under any interleaving of NewCmafIngester calls no two calls are
\* inside the assignment to cm.ingesters at the same time, the process is
\* not ended by the runtime, and every call that has returned an id without
\* error has its session in the map under that id.
C19_RegistryHoldsAll ==
  /\ Cardinality(mapWriters) <= 1
  /\ ~mgrFatal
  /\ \A p \in Procs : ret[p].err = "nil" =>
       /\ ret[p].nr \in DOMAIN ingesters
       /\ ingesters[ret[p].nr] = p

\* --------------------------------------------------------- claims: cmafSource
IsPrefix(a, b) == Len(a) <= Len(b) /\ SubSeq(b, 1, Len(a)) = a

\* C10: Write accepts all bytes; a Read returns at most len(p) bytes; the
\* bytes returned by Read, in order, are a prefix of the bytes written, and
\* what was not returned yet is still buffered; Read reports end-of-stream
\* only with an empty buffer and after a termination signal, so that when
\* the no-more-data signal ends the stream every written byte was delivered.
C10_BridgeDeliversAll ==
  /\ lastWrite.n = lastWrite.len
  /\ lastRead.n <= lastRead.len
  /\ IsPrefix(delivered, written)
  /\ delivered \o buf = written
  /\ rpc = "eof" =>
       /\ buf = <<>>
       /\ bctxDone \/ noMoreClosed \/ wpc = "sent"
  /\ (rpc = "eof" /\ lastRead.err = "EOF:noMore") => delivered = written

\* ------------------------------------------------------------ claims: session
DriftLine == "Segment availability time in the past"

DriftCount == Cardinality({i \in DOMAIN report : report[i] = DriftLine})

Running(r) == unit[r] \notin {"none", "done"}

\* C3: the segment number given to the k-th sendMediaSegments call of a
\* session is lastNr + k, whatever woke the loop (timer, trigger or drift
\* catch-up): the numbers start at lastNr + 1 and go up by one per round.
C3_SegNrsConsecutive ==
  pushCount > 0 => \A r \in Reps : unitRound[r] = lastNr + pushCount

\* a run with a round woken by a trigger, one by the drift catch-up and one
\* by the timer
C3_Witness ==
  /\ pushCount >= 3
  /\ triggers >= 1
  /\ DriftCount >= 1
  /\ pushCount > triggers + DriftCount

\* C4: a unit runs only while the loop is in the wg.Wait of its own round:
\* nextSegNr is incremented and the next availability time computed only
\* when no unit is running, and units of two rounds never run together.
C4_RoundBarrier ==
  /\ \A r \in Reps : Running(r) => (spc = "join" /\ unitRound[r] = nextSegNr)
  /\ \A r, q \in Reps : (Running(r) /\ Running(q)) => unitRound[r] = unitRound[q]
  /\ spc \in {"calc", "drift"} => \A r \in Reps : unit[r] = "done"

\* the join of a second round has returned, one unit having succeeded and
\* the other one having failed
C4_Witness ==
  /\ spc = "calc"
  /\ pushCount >= 2
  /\ ~crashed
  /\ \E r, q \in Reps : outcome[r] = "ok" /\ outcome[q] = "abort"

\* C5: when writeSegment fails with not-found, too-early or gone for one
\* representation, the tasks of that unit end normally: its request driver
\* does not panic, which would end the process, the other units and the
\* session with it.
C5_SegFailureContained ==
  \A r \in Reps : outcome[r] = "abort" => drv[r] /= "panicked"

\* C6: in test mode every round was woken by a trigger: the timer never
\* causes a push, however much time passes, and the drift catch-up never
\* runs.
C6_TestModeOnlyTriggers ==
  testMode => (pushCount = triggers /\ spc /= "drift" /\ DriftCount = 0)

\* C7: in wall-clock mode every round is followed by the drift check; when
\* the availability time is at or before the clock the drift line is
\* appended and the round is sent in the same step, the timer left alone;
\* otherwise, and only then, the timer is re-armed, with the delay
\* availabilityTime - nowMS > 0.
C7_DriftCatchUp ==
  /\ [][(spc = "calc" /\ spc' \notin {"calc", "defer"} /\ ~testMode)
          => spc' = "drift"]_vars
  /\ [][(spc = "drift" /\ spc' /= "drift") =>
          IF availabilityTime <= nowMS
            THEN /\ report' = Append(report, DriftLine)
                 /\ pushCount' = pushCount + 1
                 /\ \A r \in Reps : unitRound'[r] = nextSegNr
                 /\ spc' = "join"
                 /\ UNCHANGED timerVars
            ELSE /\ spc' = "wait"
                 /\ timerActive'
                 /\ timerDeadline' - now = availabilityTime - nowMS
                 /\ timerDeadline' - now > 0
                 /\ UNCHANGED <<report, pushCount>>]_vars
  /\ [][(timerActive' /\ ~(timerActive /\ timerDeadline' = timerDeadline))
          => (spc = "first" \/ (spc = "drift" /\ availabilityTime > nowMS))]_vars

\* two overdue rounds in a row were sent, and then the timer was re-armed
C7_Witness ==
  /\ ~testMode
  /\ spc = "wait"
  /\ timerActive
  /\ \E i \in DOMAIN report :
       /\ i < Len(report)
       /\ report[i] = DriftLine
       /\ report[i + 1] = DriftLine

\* C8: once ctx is cancelled the session task comes to its end, units in
\* flight or not (a process that the panic of a request driver has ended
\* apart); and once the loop has seen the cancellation no round is started.
C8_CancelStops ==
  /\ ctxDone ~> (spc = "stopped" \/ crashed)
  /\ [][(spc \in {"defer", "stopped"}) => pushCount' = pushCount]_vars

\* C9: every step leaves the report as it was or appends to it
C9_ReportAppendOnly == [][IsPrefix(report, report')]_vars

\* a stopped session whose report has a line of the init loop, a drift line
\* and the line of the error that stopped it
C9_Witness ==
  /\ spc = "stopped"
  /\ Len(report) >= 3
  /\ report[1] = "error uploading init segment"
  /\ \E i \in DOMAIN report : report[i] = DriftLine
  /\ report[Len(report)] = "Error calculating segment availability time"

\* C12: unless ctx is cancelled, every unit that a round has dispatched
\* comes to its end, whatever becomes of its PUT (a process ended by the
\* panic of a request driver apart), and so wg.Wait returns.
C12_UnitsTerminate ==
  \A r \in Reps :
    (unit[r] = "write") ~> (unit[r] = "done" \/ ctxDone \/ crashed)

CalcErrorLine == "Error calculating segment availability time"

\* the report ends with the line of an error that stops the loop
FatalSeen == Len(report) > 0 /\ report[Len(report)] = CalcErrorLine

\* C13: once an error has stopped the loop the session task comes to its
\* end, in both modes and whatever woke the round before the error: when
\* start has returned into its deferred function, that function can run
\* to its end (nothing arms the timer or fills timer.C for it later).
\* Stated for the rounds all of whose units succeeded.
C13_FatalErrorStops ==
  (FatalSeen /\ spc = "defer" /\ \A r \in Reps : outcome[r] = "ok")
    => ENABLED (DeferStop \/ DeferDrain)

\* C14: the line of the error that stops the loop stays the last line of
\* the report: the step that appends it leaves the loop, and from then on
\* no round is sent and the report does not change.
C14_ErrorLineLast ==
  /\ [][(~FatalSeen /\ FatalSeen') => spc' \in {"defer", "stopped"}]_vars
  /\ [][FatalSeen => (report' = report /\ pushCount' = pushCount)]_vars

\* the error came in the drift catch-up, after an overdue round, and the
\* session has stopped
C14_Witness ==
  /\ spc = "stopped"
  /\ FatalSeen
  /\ pushCount >= 2
  /\ Len(report) >= 2
  /\ report[Len(report) - 1] = DriftLine

\* C15: a unit whose segment was produced waits for the finished signal
\* only after its request driver has taken the no-more-data signal, and it
\* is done only when the driver has ended its request and delivered the
\* finished signal: once wg.Wait has returned no PUT of a produced segment
\* of the round is in flight.
C15_DoneAfterFinished ==
  /\ \A r \in Reps : unit[r] = "waitFin" => drv[r] \in {"resp", "sendFin"}
  /\ \A r \in Reps : (unit[r] = "done" /\ outcome[r] = "ok") => drv[r] = "done"
  /\ spc /= "join" => \A r \in Reps : outcome[r] = "ok" => drv[r] = "done"

\* wg.Wait of a round has returned, all its segments produced and sent
C15_Witness ==
  /\ spc = "calc"
  /\ ~crashed
  /\ \A r \in Reps : outcome[r] = "ok" /\ unit[r] = "done" /\ drv[r] = "done"

\* the report lines that start writes about the init segments, the drift
\* and the availability time
LoopLines ==
  {"error matching time subs init lang", "Error encoding init segment",
   "Error matching init segment", "error uploading init segment",
   DriftLine, CalcErrorLine}

\* C16: when a unit has failed (not-found, too-early, gone or any other
\* error of writeSegment) the report has a line about it, that is a line
\* other than those of the init loop, the drift and the availability time.
C16_UnitFailuresReported ==
  \A r \in Reps :
    (unit[r] = "done" /\ outcome[r] \in {"abort", "default"})
      => \E i \in DOMAIN report : report[i] \notin LoopLines

\* C17: the pass of the init loop in which the PUT of an init segment gets
\* a response that is not 2xx, or a transport error, appends the line
\* about it to the report and goes on with the next representation or with
\* the main loop.
C17_InitPutFailureReported ==
  [][\A o \in {"assetPutNon2xx", "assetPutErr"} :
       InitRep(o) => /\ report' = Append(report, "error uploading init segment")
                     /\ spc' \in {"init", "first"}]_vars

\* the first segment was available before the session started: the delta
\* computed at start-up is negative
FirstOverdue ==
  /\ ~testMode
  /\ spc \notin {"init", "first"}
  /\ calcSegmentAvailabilityTime(lastNr + 1) < 0

\* C18 as stated: a first round whose delta is negative is sent with a
\* drift line in the report for it.
C18_FirstOverdueDriftLine ==
  (FirstOverdue /\ pushCount = 1) => DriftCount = 1

\* C18 amended: a first round whose delta is negative is not skipped and
\* not waited for: the timer armed with the negative delta is due at once,
\* so the select can take timer.C without the clock moving, and the round
\* sent first is the one of segment lastNr + 1; no drift line is written
\* for it, the drift lines being those of the later rounds.
C18_FirstOverdueSentAtOnce ==
  /\ [](FirstOverdue /\ spc = "wait" /\ pushCount = 0
          => timerChan \/ (timerActive /\ timerDeadline <= now))
  /\ [](FirstOverdue /\ pushCount >= 1 => DriftCount <= pushCount - 1)
  /\ [][(FirstOverdue /\ pushCount = 0 /\ pushCount' = 1)
          => /\ report' = report
             /\ now' = now
             /\ \A r \in Reps : unitRound'[r] = lastNr + 1]_vars

\* the timer, due at once, has woken the loop and the first round is on
\* its way, the report without a drift line
C18_Witness ==
  /\ FirstOverdue
  /\ pushCount = 1
  /\ triggers = 0
  /\ spc = "join"
  /\ DriftCount = 0
  /\ \A r \in Reps : unitRound[r] = lastNr + 1

\* C20: a triggerNextSegment call is complete when the loop has taken its
\* signal at the select, and every signal taken sends one round: in test
\* mode, whenever the loop is at its wait point, as many rounds were sent
\* as triggerNextSegment calls are complete.
C20_TriggerRendezvous ==
  (testMode /\ spc = "wait" /\ ~crashed) => pushCount = triggers

Init == MgrInit /\ BridgeInit /\ SessInit /\ TlIdle

Spec == Init /\ [][SessNext]_vars

\* what the scheduler and the runtime guarantee: a goroutine that can take
\* a step takes one, and a timer that is due expires. Failures, the clock,
\* the trigger and the cancellation are under no obligation.
UnitProgress(r) ==
  \/ UnitWriteOk(r)
  \/ \E e \in SegFailures : UnitWriteFail(r, e)
  \/ UnitSendStop(r)

DriverProgress(r) ==
  \/ DriverReadClosed(r)
  \/ DriverReadCtxDone(r)
  \/ DriverResponse(r)
  \/ DriverSendFinished(r)
  \/ DriverPanic(r)

Fairness ==
  /\ WF_vars(start)
  /\ WF_vars(TimerFire)
  /\ WF_vars(OrphanPanic)
  /\ \A r \in Reps : WF_vars(UnitProgress(r))
  /\ \A r \in Reps : WF_vars(DriverProgress(r))

FairSpec == Spec /\ Fairness

SpecMgr == Init /\ [][MgrNext]_vars

SpecBridge == Init /\ [][BridgeNext]_vars

InitTimeline == MgrInit /\ BridgeInit /\ SessInit /\ TlInit

SpecTimeline == InitTimeline /\ [][TlNext]_vars
====
